---- MODULE Spec2Model ----
(***************************************************************************)
(* quickcrawl: the TTL cache (lib/cache.ts), the sliding-window rate       *)
(* limiter (lib/rateLimiter.ts), the task pipeline (workflow/Workflow),    *)
(* and the crawl service behind POST /crawl (the crawl tasks,              *)
(* CrawlService, CachedCrawlService, the rate-limit middleware and the     *)
(* handler) as state machines, with the timer of the fetch task and with  *)
(* crawlUrl calls that run side by side on the shared cache.  Date.now()   *)
(* is the variable now; each component has its own specification over the  *)
(* shared clock.                                                           *)
(***************************************************************************)
EXTENDS Integers, Sequences, FiniteSets, TLC

VARIABLES
  now,        \* Date.now()
  maxSize,    \* CacheService.maxSize (constructor argument)
  ttlMs,      \* CacheService.ttlMs (constructor argument)
  cache,      \* CacheService.cache : Map<K, {value, expiresAt}>
  order,      \* CacheService.order : K[]
  cret,       \* the last CacheService call, what it returned (val), the
              \* keys it removed from the map (gone) and whether its key was
              \* stored when it was made (had)
  lastSet,    \* history: per key, the time of the last set(key, ..) and its
              \* value, kept while no delete and no eviction removed the key
  maxRequests, \* rateLimitMiddleware: getRateLimitConfig().maxRequests
  windowMs,    \* rateLimitMiddleware: getRateLimitConfig().windowMs
  requests,    \* RateLimiter.requests : Map<string, number[]>
  lret,        \* the last checkLimit call, what it returned, and whether it
               \* came after a denied check of the same identifier
  admitted,    \* history: per identifier, the times of its latest admitted
               \* checks (the last maxRequests + 1 of them)
  deniedSince, \* history: per identifier, TRUE when a check was denied after
               \* its latest admitted check
  initial,     \* Workflow.run: the argument initial
  stageStatus, \* per task: idle, running, resolved or rejected
  received,    \* per task: the context its run function was called with
  returned,    \* per task: the value it resolved with or the error it raised
  chain,       \* Workflow.run: promise, the promise of the pPipe pipeline
  result,      \* the promise Workflow.run returned to its caller
  timer,       \* the timer of pTimeout: state, milliseconds, and due time
  timeoutMs,   \* CrawlService.timeoutMs (constructor argument)
  tasks,       \* the number of tasks of the workflow CrawlService was given
  attempts,    \* fetchHtmlTask: the attempts pRetry has made in this run
  fetchCalls,  \* history: how many times the fetch stage has been invoked
  svc,         \* the POST /crawl request that awaits CrawlService.crawlUrl
  response,    \* the last HTTP response, with the identifier and body of
               \* its request
  abort,       \* fetchHtmlTask: the timer that aborts controller.signal
  runs,        \* the crawlUrl calls in progress side by side, one per slot
  heap         \* the context objects those calls have created

cacheVars == <<maxSize, ttlMs, cache, order, cret, lastSet>>
limiterVars == <<maxRequests, windowMs, requests, lret, admitted, deniedSince>>
workflowVars == <<initial, stageStatus, received, returned, chain, result, timer>>
serviceVars == <<timeoutMs, tasks, attempts, fetchCalls, svc, response, abort>>
concVars == <<runs, heap>>
vars == <<now, cacheVars, limiterVars, workflowVars, serviceVars, concVars>>

----------------------------------------------------------------------------
(* Bounds of the model *)

MaxTime == 2
MaxTtl == 2
MaxClock == 3
MaxReq == 2
MaxWindow == 2
MaxRunTime == 3
MaxTimeout == 2
MaxServiceTime == 3
MaxCrawls == 2
\* FETCH_TIMEOUT_MS in ticks of the clock: half the deadline of
\* CrawlService, as 15 s are of 30 s
MaxFetchTimeout == 1
MaxConcurrentTime == 2

\* defaults of the configuration
DEFAULT_CACHE_TTL_MS == 300000
DEFAULT_CACHE_MAX_SIZE == 100
defaultMaxRequests == 10
defaultWindowMs == 60000
DEFAULT_TIMEOUT_MS == 30000
RETRIES == 2

Keys == {"a", "b", "c"}
Values == {"v1", "v2"}

\* the capacities tried: the empty one and those the keys can overfill
Caps == 0..(Cardinality(Keys) - 1)
Undefined == "undefined"
None == "none"

\* a promise: pending, or settled with the value it resolved to or the
\* value it rejected with
Pending == [state |-> "pending", value |-> None]
Resolved(v) == [state |-> "resolved", value |-> v]
Rejected(e) == [state |-> "rejected", value |-> e]

----------------------------------------------------------------------------
(* JavaScript Map and Array primitives *)

MapHas(m, k) == k \in DOMAIN m

MapDelete(m, k) == [j \in (DOMAIN m) \ {k} |-> m[j]]

MapSet(m, k, e) == [j \in (DOMAIN m) \cup {k} |-> IF j = k THEN e ELSE m[j]]

\* Array.prototype.indexOf: the first position of k, 0 standing for -1
IndexOf(s, k) ==
  IF \E i \in 1..Len(s) : s[i] = k
    THEN CHOOSE i \in 1..Len(s) : s[i] = k /\ \A j \in 1..(i - 1) : s[j] # k
    ELSE 0

\* Array.prototype.splice(i, 1)
Splice(s, i) == SubSeq(s, 1, i - 1) \o SubSeq(s, i + 1, Len(s))

\* mutation of RemoveKey: the key is left where it is
RemoveKeyNever(s, k) == s

\* const idx = order.indexOf(key); if (idx !== -1) order.splice(idx, 1)
RemoveKey(s, k) == IF IndexOf(s, k) # 0 THEN Splice(s, IndexOf(s, k)) ELSE s

----------------------------------------------------------------------------
(* CacheService *)

\* get: Date.now() > entry.expiresAt
\* mutation of Expired: an entry never expires
ExpiredNever(entry, t) == FALSE

Expired(entry, t) == t > entry.expiresAt

\* mutation of NewEntry: the TTL is not added to the expiry
NewEntryNoTtl(value, t, ttl) == [value |-> value, expiresAt |-> t]

\* set: { value, expiresAt: Date.now() + ttlMs }
NewEntry(value, t, ttl) == [value |-> value, expiresAt |-> t + ttl]

\* set: the capacity test that decides whether the oldest key is shifted out
MustEvict(c, o, key, max) == ~MapHas(c, key) /\ Len(o) >= max

\* mutation of DeleteIn: the oldest key leaves the order, whatever key is
\* deleted
DeleteInShiftsOrder(c, o, key) ==
  [cache |-> MapDelete(c, key),
   order |-> IF MapHas(c, key) /\ Len(o) > 0 THEN Tail(o) ELSE o,
   deleted |-> MapHas(c, key)]

\* mutation of SetIn: a key the cache holds keeps the entry it has
SetInKeepsExisting(c, o, key, value, t, ttl, max) ==
  IF MapHas(c, key)
    THEN [cache |-> c, order |-> o]
    ELSE [cache |-> MapSet(c, key, [value |-> value, expiresAt |-> t + ttl]),
          order |-> Append(o, key)]

\* mutation of SetIn: a full cache evicts an expired key, the one set last,
\* in preference to its oldest key
SetInEvictsExpiredFirst(c, o, key, value, t, ttl, max) ==
  LET evict == ~MapHas(c, key) /\ Len(o) >= max /\ Len(o) > 0
      old == {i \in 1..Len(o) : MapHas(c, o[i]) /\ t > c[o[i]].expiresAt}
      at == IF old # {} THEN CHOOSE i \in old : \A j \in old : j <= i ELSE 1
      c1 == IF evict THEN MapDelete(c, o[at]) ELSE c
      o1 == IF evict THEN SubSeq(o, 1, at - 1) \o SubSeq(o, at + 1, Len(o)) ELSE o
  IN [cache |-> MapSet(c1, key, [value |-> value, expiresAt |-> t + ttl]),
      order |-> Append(RemoveKey(o1, key), key)]

\* mutation of SetIn: a full cache evicts its oldest key on every set
SetInAlwaysEvicts(c, o, key, value, t, ttl, max) ==
  LET evict == Len(o) >= max
      c1 == IF evict /\ Len(o) > 0 THEN MapDelete(c, Head(o)) ELSE c
      o1 == IF evict /\ Len(o) > 0 THEN Tail(o) ELSE o
  IN [cache |-> MapSet(c1, key, [value |-> value, expiresAt |-> t + ttl]),
      order |-> Append(RemoveKey(o1, key), key)]

\* delete(key) on the pair (cache, order); deleted is the return value
DeleteIn(c, o, key) ==
  [cache |-> MapDelete(c, key),
   order |-> IF MapHas(c, key) THEN RemoveKey(o, key) ELSE o,
   deleted |-> MapHas(c, key)]

\* mutation of GetIn: an expired entry is reported absent but not deleted
GetInKeepsExpired(c, o, key, t) ==
  IF ~MapHas(c, key)
    THEN [cache |-> c, order |-> o, value |-> Undefined]
    ELSE IF Expired(c[key], t)
      THEN [cache |-> c, order |-> o, value |-> Undefined]
      ELSE [cache |-> c, order |-> o, value |-> c[key].value]

\* mutation of GetIn: a hit pushes the expiry of the entry one unit on
GetInExtendsLife(c, o, key, t) ==
  IF ~MapHas(c, key)
    THEN [cache |-> c, order |-> o, value |-> Undefined]
    ELSE IF Expired(c[key], t)
      THEN [cache |-> MapDelete(c, key),
            order |-> RemoveKey(o, key),
            value |-> Undefined]
      ELSE [cache |-> [c EXCEPT ![key].expiresAt = @ + 1],
            order |-> o, value |-> c[key].value]

\* get(key) on the pair (cache, order) at time t; value is the return value
GetIn(c, o, key, t) ==
  IF ~MapHas(c, key)
    THEN [cache |-> c, order |-> o, value |-> Undefined]
    ELSE IF Expired(c[key], t)
      THEN [cache |-> DeleteIn(c, o, key).cache,
            order |-> DeleteIn(c, o, key).order,
            value |-> Undefined]
      ELSE [cache |-> c, order |-> o, value |-> c[key].value]

\* set(key, value) on the pair (cache, order) at time t
SetIn(c, o, key, value, t, ttl, max) ==
  LET evict == MustEvict(c, o, key, max)
      \* order.shift() returns undefined on an empty array
      c1 == IF evict /\ Len(o) > 0 THEN MapDelete(c, Head(o)) ELSE c
      o1 == IF evict /\ Len(o) > 0 THEN Tail(o) ELSE o
  IN [cache |-> MapSet(c1, key, NewEntry(value, t, ttl)),
      order |-> Append(RemoveKey(o1, key), key)]

\* history bookkeeping shared by the three operations: the value of a key
\* that this step removed from the map is forgotten
LastSetAfter(c2) ==
  [j \in Keys |-> IF MapHas(c2, j) THEN lastSet[j]
                                   ELSE [lastSet[j] EXCEPT !.value = None]]

CacheNew ==
  /\ cache = <<>>
  /\ order = <<>>
  /\ cret = [op |-> "new", key |-> None, val |-> None, gone |-> {},
             had |-> FALSE]
  /\ lastSet = [j \in Keys |-> [value |-> None, at |-> -1]]

\* new CacheService(ttlMs, maxSize) with any arguments
CacheInit ==
  /\ maxSize \in Caps
  /\ ttlMs \in 1..MaxTtl
  /\ CacheNew

\* the cache of CachedCrawlService under the default configuration
CacheDefault ==
  /\ maxSize = DEFAULT_CACHE_MAX_SIZE
  /\ ttlMs = DEFAULT_CACHE_TTL_MS
  /\ CacheNew

\* what get(key) does to the cache
GetStep(key) ==
  LET r == GetIn(cache, order, key, now) IN
  /\ cache' = r.cache
  /\ order' = r.order
  /\ cret' = [op |-> "get", key |-> key, val |-> r.value,
              gone |-> (DOMAIN cache) \ (DOMAIN r.cache),
              had |-> MapHas(cache, key)]
  /\ lastSet' = LastSetAfter(r.cache)

Get(key) ==
  /\ GetStep(key)
  /\ UNCHANGED <<now, maxSize, ttlMs, limiterVars, workflowVars,
                 serviceVars, concVars>>

\* what set(key, value) does to the cache
SetStep(key, value) ==
  LET r == SetIn(cache, order, key, value, now, ttlMs, maxSize) IN
  /\ cache' = r.cache
  /\ order' = r.order
  /\ cret' = [op |-> "set", key |-> key, val |-> Undefined,
              gone |-> (DOMAIN cache) \ (DOMAIN r.cache),
              had |-> MapHas(cache, key)]
  /\ lastSet' = [LastSetAfter(r.cache) EXCEPT
                   ![key] = [value |-> value, at |-> now]]

Set(key, value) ==
  /\ SetStep(key, value)
  /\ UNCHANGED <<now, maxSize, ttlMs, limiterVars, workflowVars,
                 serviceVars, concVars>>

Delete(key) ==
  LET r == DeleteIn(cache, order, key) IN
  /\ cache' = r.cache
  /\ order' = r.order
  /\ cret' = [op |-> "delete", key |-> key, val |-> r.deleted,
              gone |-> (DOMAIN cache) \ (DOMAIN r.cache),
              had |-> MapHas(cache, key)]
  /\ lastSet' = LastSetAfter(r.cache)
  /\ UNCHANGED <<now, maxSize, ttlMs, limiterVars, workflowVars,
                 serviceVars, concVars>>

\* time passes between two calls
CacheTick ==
  /\ now < MaxTime
  /\ now' = now + 1
  /\ cret' = [op |-> "tick", key |-> None, val |-> None, gone |-> {},
              had |-> FALSE]
  /\ UNCHANGED <<maxSize, ttlMs, cache, order, lastSet, limiterVars, workflowVars,
               serviceVars, concVars>>

CacheNext ==
  \/ \E k \in Keys : Get(k)
  \/ \E k \in Keys, v \in Values : Set(k, v)
  \/ \E k \in Keys : Delete(k)
  \/ CacheTick

----------------------------------------------------------------------------
(* RateLimiter *)

Ids == {"x", "y"}

\* mutation of Recent: a timestamp exactly windowMs old is still counted
RecentInclusive(timestamps, t, W) == SelectSeq(timestamps, LAMBDA s : t - s <= W)

\* timestamps.filter((t) => now - t < windowMs)
Recent(timestamps, t, W) == SelectSeq(timestamps, LAMBDA s : t - s < W)

\* mutation of AtLimit: one request too many passes
AtLimitOffByOne(recent, N) == Len(recent) > N

\* recent.length >= maxRequests
AtLimit(recent, N) == Len(recent) >= N

\* mutation of Timestamps: one history is kept for all identifiers
TimestampsShared(reqs, id) ==
  IF DOMAIN reqs # {} THEN reqs[CHOOSE k \in DOMAIN reqs : TRUE] ELSE <<>>

\* this.requests.get(identifier) ?? []
Timestamps(reqs, id) == IF MapHas(reqs, id) THEN reqs[id] ELSE <<>>

\* mutation of CheckIn: the timestamp is recorded before the limit is tested
CheckInRecordsDenied(reqs, id, N, W, t) ==
  LET recent == Recent(Timestamps(reqs, id), t, W) IN
  [requests |-> MapSet(reqs, id, Append(recent, t)),
   allowed |-> ~AtLimit(recent, N)]

\* mutation of CheckIn: the timestamp is pushed onto the whole history, not
\* onto the filtered one
CheckInKeepsAll(reqs, id, N, W, t) ==
  LET recent == Recent(Timestamps(reqs, id), t, W) IN
  IF AtLimit(recent, N)
    THEN [requests |-> reqs, allowed |-> FALSE]
    ELSE [requests |-> MapSet(reqs, id, Append(Timestamps(reqs, id), t)),
          allowed |-> TRUE]

\* mutation of CheckIn: an admitted check is not recorded
CheckInForgets(reqs, id, N, W, t) ==
  LET recent == Recent(Timestamps(reqs, id), t, W) IN
  IF AtLimit(recent, N)
    THEN [requests |-> reqs, allowed |-> FALSE]
    ELSE [requests |-> reqs, allowed |-> TRUE]

\* checkLimit(identifier, maxRequests, windowMs) on the map at time t
CheckIn(reqs, id, N, W, t) ==
  LET recent == Recent(Timestamps(reqs, id), t, W) IN
  IF AtLimit(recent, N)
    THEN [requests |-> reqs, allowed |-> FALSE]
    ELSE [requests |-> MapSet(reqs, id, Append(recent, t)), allowed |-> TRUE]

\* the last n elements of s
LastN(s, n) == IF Len(s) > n THEN SubSeq(s, Len(s) - n + 1, Len(s)) ELSE s

LimiterNew ==
  /\ requests = <<>>
  /\ lret = [op |-> "new", id |-> None, allowed |-> FALSE, afterDenied |-> FALSE]
  /\ admitted = [i \in Ids |-> <<>>]
  /\ deniedSince = [i \in Ids |-> FALSE]

\* the middleware reads its configuration once, any configuration
LimiterInit ==
  /\ maxRequests \in 0..MaxReq
  /\ windowMs \in 1..MaxWindow
  /\ LimiterNew

\* the limiter under the default configuration
LimiterDefault ==
  /\ maxRequests = defaultMaxRequests
  /\ windowMs = defaultWindowMs
  /\ LimiterNew

\* what checkLimit(id, maxRequests, windowMs) does to the limiter
CheckLimitStep(id) ==
  LET r == CheckIn(requests, id, maxRequests, windowMs, now) IN
  /\ requests' = r.requests
  /\ lret' = [op |-> "checkLimit", id |-> id, allowed |-> r.allowed,
              afterDenied |-> deniedSince[id]]
  /\ admitted' = IF r.allowed
       THEN [admitted EXCEPT ![id] = LastN(Append(@, now), maxRequests + 1)]
       ELSE admitted
  /\ deniedSince' = [deniedSince EXCEPT ![id] = ~r.allowed]

CheckLimit(id) ==
  /\ CheckLimitStep(id)
  /\ UNCHANGED <<now, maxRequests, windowMs, cacheVars, workflowVars,
                 serviceVars, concVars>>

\* time passes between two requests
LimiterTick ==
  /\ now < MaxClock
  /\ now' = now + 1
  /\ lret' = [op |-> "tick", id |-> None, allowed |-> FALSE, afterDenied |-> FALSE]
  /\ UNCHANGED <<maxRequests, windowMs, requests, admitted, deniedSince, cacheVars,
               workflowVars, serviceVars, concVars>>

LimiterNext ==
  \/ \E id \in Ids : CheckLimit(id)
  \/ LimiterTick

----------------------------------------------------------------------------
(* Workflow: run = pTimeout(pPipe(...tasks.map(t => t.run))(initial)) *)

\* createCrawlWorkflow: the tasks, in list order
Tasks == <<"fetch_html", "extract_metadata", "parse_document",
           "clean_document", "convert_to_markdown">>

NumTasks == Len(Tasks)

\* the values a run function may be given or return, and the errors it may raise
Ctxs == {"ctx0", "ctx1"}
Errs == {"err0", "err1"}
TimeoutError == "TimeoutError"

\* the own properties of a value raised inside run(): the TimeoutError of
\* pTimeout and the Error objects of the tasks carry a name and a message
\* (for a task's error the message is the token that stands for it)
ErrorProps(e, ms) ==
  IF e = TimeoutError
    THEN [name |-> "TimeoutError",
          message |-> "Promise timed out after " \o ToString(ms) \o " milliseconds"]
    ELSE [name |-> "Error", message |-> e]

\* mutation of PPipeNext: every task is handed the pipeline's input
PPipeNextPassesInput(n, i, ok, v, input) ==
  IF ~ok
    THEN [start |-> 0, arg |-> None, chain |-> Rejected(v)]
    ELSE IF i < n
      THEN [start |-> i + 1, arg |-> input, chain |-> Pending]
      ELSE [start |-> 0, arg |-> None, chain |-> Resolved(v)]

\* mutation of PPipeNext: a failed task is skipped and the loop goes on
PPipeNextSkipsFailed(n, i, ok, v, input) ==
  IF i < n
    THEN [start |-> i + 1, arg |-> IF ok THEN v ELSE input, chain |-> Pending]
    ELSE IF ok
      THEN [start |-> 0, arg |-> None, chain |-> Resolved(v)]
      ELSE [start |-> 0, arg |-> None, chain |-> Rejected(v)]

\* mutation of PPipeNext: after a failure the pipeline starts over
PPipeNextStartsOver(n, i, ok, v, input) ==
  IF ~ok
    THEN [start |-> 1, arg |-> input, chain |-> Pending]
    ELSE IF i < n
      THEN [start |-> i + 1, arg |-> v, chain |-> Pending]
      ELSE [start |-> 0, arg |-> None, chain |-> Resolved(v)]

\* pPipe: for (const fn of functions) currentValue = await fn(currentValue)
\* what the loop does once task i of n has settled (ok: resolved with v,
\* otherwise rejected with v): the task to call next and its argument, or
\* the settlement of the pipeline's promise
PPipeNext(n, i, ok, v, input) ==
  IF ~ok
    THEN [start |-> 0, arg |-> None, chain |-> Rejected(v)]
    ELSE IF i < n
      THEN [start |-> i + 1, arg |-> v, chain |-> Pending]
      ELSE [start |-> 0, arg |-> None, chain |-> Resolved(v)]

\* the promise run() returned follows the pipeline's promise unless it has
\* been settled already (by the timer)
Follow(res, ch) == IF res.state = "pending" THEN ch ELSE res

NoTimer == [state |-> "none", ms |-> 0, due |-> 0]

\* mutation of TimerAfter: the timer is set again whenever a task settles
TimerAfterRearms(tm, res) ==
  IF tm.state = "armed" /\ res.state # "pending"
    THEN [tm EXCEPT !.state = "cleared"]
    ELSE IF tm.state = "armed"
      THEN [tm EXCEPT !.due = now + tm.ms]
      ELSE tm

\* pTimeout clears its timer when the promise it returned settles
TimerAfter(tm, res) ==
  IF tm.state = "armed" /\ res.state # "pending"
    THEN [tm EXCEPT !.state = "cleared"]
    ELSE tm

WorkflowNew ==
  /\ initial = None
  /\ stageStatus = [i \in 1..NumTasks |-> "idle"]
  /\ received = [i \in 1..NumTasks |-> None]
  /\ returned = [i \in 1..NumTasks |-> None]
  /\ chain = [state |-> "none", value |-> None]
  /\ result = [state |-> "none", value |-> None]
  /\ timer = NoTimer

\* RunOptions: with or without timeoutMs
RunOptions ==
  {[hasTimeout |-> FALSE, timeoutMs |-> 0]} \cup
  {[hasTimeout |-> TRUE, timeoutMs |-> ms] : ms \in 1..MaxTimeout}

\* mutation of TimerFor: run() sets no timer
TimerForNever(options, t) == NoTimer

\* run(): options?.timeoutMs != null ? pTimeout(promise, { milliseconds })
\* : promise, called at time t
TimerFor(options, t) ==
  IF options.hasTimeout
    THEN [state |-> "armed", ms |-> options.timeoutMs,
          due |-> t + options.timeoutMs]
    ELSE NoTimer

\* run(init, options): the pipeline calls the first task at once, and the
\* timer is set when options.timeoutMs != null
RunStep(init, options) ==
  /\ initial' = init
  /\ stageStatus' = [i \in 1..NumTasks |-> IF i = 1 THEN "running" ELSE "idle"]
  /\ received' = [i \in 1..NumTasks |-> IF i = 1 THEN init ELSE None]
  /\ returned' = [i \in 1..NumTasks |-> None]
  /\ chain' = Pending
  /\ result' = Pending
  /\ timer' = TimerFor(options, now)

\* one call of run() on a workflow
Run(init, options) ==
  /\ result.state = "none"
  /\ RunStep(init, options)
  /\ UNCHANGED <<now, cacheVars, limiterVars, serviceVars, concVars>>

\* task i of a workflow of n tasks settles and the pipeline's loop continues
SettleStep(n, i, ok, v) ==
  LET nx == PPipeNext(n, i, ok, v, initial)
      res == Follow(result, nx.chain)
  IN
  /\ stageStatus[i] = "running"
  /\ returned' = [returned EXCEPT ![i] = v]
  /\ stageStatus' = [j \in 1..NumTasks |->
       IF j = i THEN (IF ok THEN "resolved" ELSE "rejected")
       ELSE IF j = nx.start THEN "running"
       ELSE stageStatus[j]]
  /\ received' = [j \in 1..NumTasks |->
       IF j = nx.start THEN nx.arg ELSE received[j]]
  /\ chain' = nx.chain
  /\ result' = res
  /\ timer' = TimerAfter(timer, res)
  /\ UNCHANGED initial

Settle(i, ok, v) ==
  /\ SettleStep(NumTasks, i, ok, v)
  /\ UNCHANGED <<now, cacheVars, limiterVars, serviceVars, concVars>>

StageResolve(i, out) == Settle(i, TRUE, out)

StageReject(i, err) == Settle(i, FALSE, err)

\* the timer of pTimeout fires: run() rejects, the pipeline is left running
Timeout ==
  /\ timer.state = "armed"
  /\ now >= timer.due
  /\ result' = Rejected(TimeoutError)
  /\ timer' = [timer EXCEPT !.state = "fired"]
  /\ UNCHANGED <<now, initial, stageStatus, received, returned, chain,
                 cacheVars, limiterVars, serviceVars, concVars>>

\* time passes while a task is in flight
WorkflowTick ==
  /\ now < MaxRunTime
  /\ \E i \in 1..NumTasks : stageStatus[i] = "running"
  /\ now' = now + 1
  /\ UNCHANGED <<cacheVars, limiterVars, workflowVars, serviceVars, concVars>>

WorkflowNext ==
  \/ \E init \in Ctxs, options \in RunOptions : Run(init, options)
  \/ \E i \in 1..NumTasks, out \in Ctxs : StageResolve(i, out)
  \/ \E i \in 1..NumTasks, err \in Errs : StageReject(i, err)
  \/ Timeout
  \/ WorkflowTick

----------------------------------------------------------------------------
(* The crawl tasks (workflows/crawl/tasks) *)

Urls == {"a", "b"}

\* the bodies a fetched page may have: h1 has a <title> element, h0 has none
Htmls == {"h0", "h1"}

\* the statuses a response may have
Statuses == {200, 404}

StatusText(status) == IF status = 200 THEN "OK" ELSE "Not Found"

\* Response.ok
Ok(status) == status >= 200 /\ status <= 299

\* html.match(/<title[^>]*>([^<]+)<\/title>/i): the trimmed match, if any
TitleOf(html) == IF html = "h1" THEN "t1" ELSE Undefined

\* { ...a, ...b }
Spread(a, b) ==
  [f \in (DOMAIN a) \cup (DOMAIN b) |-> IF f \in DOMAIN b THEN b[f] ELSE a[f]]

\* the value fetchHtmlTask raises on a response that is not ok
FetchFailedError(status) ==
  "Fetch failed: " \o ToString(status) \o " " \o StatusText(status)

\* fetchHtmlTask, given the body of an ok response
FetchHtmlTask(ctx, html) ==
  [stage |-> "fetched", url |-> ctx.url, html |-> html, title |-> TitleOf(html)]

\* extractMetadataTask: the title and the meta tags of ctx.html
ExtractMetadataTask(ctx) ==
  Spread(ctx, [stage |-> "metadata_extracted",
               metadata |-> [title |-> ctx.title, meta |-> "meta:" \o ctx.html]])

\* parseDocumentTask: the article, main or body of ctx.html
ParseDocumentTask(ctx) ==
  Spread(ctx, [stage |-> "parsed", document |-> "document:" \o ctx.html])

\* mutation of CleanDocumentTask: the context is built anew, without title
CleanDocumentTaskDropsTitle(ctx) ==
  [stage |-> "cleaned", url |-> ctx.url, html |-> ctx.html,
   metadata |-> ctx.metadata, document |-> ctx.document,
   cleanedDocument |-> "cleaned:" \o ctx.document]

\* cleanDocumentTask
CleanDocumentTask(ctx) ==
  Spread(ctx, [stage |-> "cleaned",
               cleanedDocument |-> "cleaned:" \o ctx.document])

\* convertToMarkdownTask
ConvertToMarkdownTask(ctx) ==
  Spread(ctx, [stage |-> "completed",
               markdown |-> "markdown:" \o ctx.cleanedDocument])

\* CrawlContext: the stage tags in the order of the tasks, and the fields
\* each variant adds to the one before it
StageOrder ==
  <<"initial", "fetched", "metadata_extracted", "parsed", "cleaned", "completed">>

NewFields ==
  <<{"html", "title"}, {"metadata"}, {"document"}, {"cleanedDocument"},
    {"markdown"}>>

\* the run function of task i (2..5) of createCrawlWorkflow
TaskRun(i, ctx) ==
  CASE i = 2 -> ExtractMetadataTask(ctx)
    [] i = 3 -> ParseDocumentTask(ctx)
    [] i = 4 -> CleanDocumentTask(ctx)
    [] i = 5 -> ConvertToMarkdownTask(ctx)

----------------------------------------------------------------------------
(* CrawlService, CachedCrawlService and POST /crawl *)

\* CrawlService takes any Workflow<InitialContext, CrawlContext>: the crawl
\* workflow, or the one without its last task, whose final context is not
\* a completed one
WorkflowSizes == {NumTasks - 1, NumTasks}

\* the raised values that are no Error objects
NonErrors == {"err1"}

IsError(e) == e \notin NonErrors

Success(data) == [success |-> TRUE, data |-> data]

Failure(error) == [success |-> FALSE, error |-> error]

IsCompleted(ctx) == ctx.stage = "completed"

\* removeUndefined(ctx.metadata)
RemoveUndefined(m) == [f \in {g \in DOMAIN m : m[g] # Undefined} |-> m[f]]

CrawlResultData(ctx) ==
  [markdown |-> ctx.markdown, title |-> ctx.title,
   metadata |-> RemoveUndefined(ctx.metadata)]

\* mutation of CrawlResultOf: a final context that is not completed is
\* answered with what it holds
CrawlResultOfPartial(res, ms) ==
  IF res.state = "resolved"
    THEN Success([markdown |-> IF IsCompleted(res.value)
                                 THEN res.value.markdown ELSE Undefined,
                  title |-> res.value.title,
                  metadata |-> res.value.metadata])
    ELSE Failure([type |-> "unknown",
                  message |-> IF IsError(res.value)
                                THEN ErrorProps(res.value, ms).message
                                ELSE "Unknown error",
                  cause |-> res.value])

\* mutation of CrawlResultOf: there is no catch block, what run() raised
\* leaves crawlUrl as it is
CrawlResultOfRethrows(res, ms) ==
  IF res.state = "resolved"
    THEN IF IsCompleted(res.value)
      THEN Success(CrawlResultData(res.value))
      ELSE Failure([type |-> "unknown", message |-> "Workflow incomplete"])
    ELSE [success |-> FALSE, thrown |-> res.value]

\* CrawlService.crawlUrl once the promise of workflow.run has settled as res:
\* the try block on a resolved promise, the catch block on a rejected one
CrawlResultOf(res, ms) ==
  IF res.state = "resolved"
    THEN IF IsCompleted(res.value)
      THEN Success(CrawlResultData(res.value))
      ELSE Failure([type |-> "unknown", message |-> "Workflow incomplete"])
    ELSE Failure([type |-> "unknown",
                  message |-> IF IsError(res.value)
                                THEN ErrorProps(res.value, ms).message
                                ELSE "Unknown error",
                  cause |-> res.value])

\* mutation of CacheWrite: the outcome of a failed crawl is stored as well
CacheWriteAlways(r) ==
  IF r.success
    THEN [store |-> TRUE, value |-> r.data]
    ELSE [store |-> TRUE, value |-> r.error]

\* CachedCrawlService.crawlUrl: if (result.success) cache.set(url, result.data)
CacheWrite(r) ==
  IF r.success
    THEN [store |-> TRUE, value |-> r.data]
    ELSE [store |-> FALSE, value |-> None]

\* crawlErrorToStatusCode
CrawlErrorToStatusCode(type) ==
  CASE type = "fetch_failed" -> 502
    [] type = "timeout" -> 504
    [] type \in {"parse_failed", "invalid_html"} -> 422
    [] type = "network_error" -> 503
    [] OTHER -> 500

\* the request bodies: no JSON, JSON without a url, JSON with a url
Bodies ==
  {[json |-> FALSE, url |-> Undefined], [json |-> TRUE, url |-> Undefined]}
    \cup {[json |-> TRUE, url |-> u] : u \in Urls}

\* CrawlInputSchema.safeParse(body).success
ValidInput(body) == body.json /\ body.url \in Urls

\* the callers of POST /crawl: one identifier, as the middleware derives it
\* from x-forwarded-for or x-real-ip
Clients == {"x"}

Idle == [state |-> "idle", id |-> None, url |-> None]

\* no fetchHtmlTask has set its timer yet
NoAbort == [state |-> "none", due |-> 0]

\* mutation of RetriesLeft: one retry more
RetriesLeftOneMore(n) == n <= RETRIES + 1

\* pRetry with retries: RETRIES retries after the n-th attempt has failed
\* while n <= RETRIES
RetriesLeft(n) == n <= RETRIES

ServiceNew ==
  /\ abort = NoAbort
  /\ attempts = 0
  /\ fetchCalls = 0
  /\ svc = Idle
  /\ response = [status |-> 0, id |-> None, url |-> None, hit |-> FALSE,
                 body |-> [error |-> None]]

\* the service as index.ts builds it
ServiceDefault ==
  /\ timeoutMs = DEFAULT_TIMEOUT_MS
  /\ tasks = NumTasks
  /\ ServiceNew

\* mutation of Allowed: the handler runs whatever the limiter says
AllowedAlways(id) == TRUE

\* rateLimitMiddleware: checkLimit(identifier, maxRequests, windowMs)
Allowed(id) == CheckIn(requests, id, maxRequests, windowMs, now).allowed

\* mutation of CacheHit: the cache is never consulted
CacheHitNever(url) == FALSE

\* CachedCrawlService.crawlUrl: if (cached), cached = this.cache.get(url);
\* the stored values are objects, so the test fails only on undefined
CacheHit(url) == MapHas(GetIn(cache, order, url, now).cache, url)

\* mutation of RetryAfter: the seconds are rounded down
RetryAfterFloor(W) == W \div 1000

\* Math.ceil(windowMs / 1000), for a window of W > 0 whole milliseconds
RetryAfter(W) == (W + 999) \div 1000

\* POST /crawl of a caller over the limit: the middleware answers 429
PostDenied(id, body) ==
  /\ svc.state = "idle"
  /\ ~Allowed(id)
  /\ CheckLimitStep(id)
  /\ response' = [status |-> 429, id |-> id, url |-> None, hit |-> FALSE,
                  retryAfter |-> RetryAfter(windowMs),
                  body |-> [error |-> "Rate limit exceeded"]]
  /\ UNCHANGED <<now, maxRequests, windowMs, cacheVars, workflowVars,
                 timeoutMs, tasks, attempts, fetchCalls, svc, abort, concVars>>

\* POST /crawl with a body that c.req.json() rejects (errorHandler answers
\* 500) or that the schema rejects (422)
PostInvalid(id, body) ==
  /\ svc.state = "idle"
  /\ Allowed(id)
  /\ ~ValidInput(body)
  /\ CheckLimitStep(id)
  /\ response' = IF body.json
       THEN [status |-> 422, id |-> id, url |-> None, hit |-> FALSE,
             body |-> [error |-> "Invalid input"]]
       ELSE [status |-> 500, id |-> id, url |-> None, hit |-> FALSE,
             body |-> Failure([type |-> "unknown", message |-> "SyntaxError"])]
  /\ UNCHANGED <<now, maxRequests, windowMs, cacheVars, workflowVars,
                 timeoutMs, tasks, attempts, fetchCalls, svc, abort, concVars>>

\* POST /crawl of a url the cache holds: answered from the cache
PostHit(id, url) ==
  /\ svc.state = "idle"
  /\ Allowed(id)
  /\ CacheHit(url)
  /\ CheckLimitStep(id)
  /\ GetStep(url)
  /\ response' = [status |-> 200, id |-> id, url |-> url, hit |-> TRUE,
                  body |-> Success(GetIn(cache, order, url, now).value)]
  /\ UNCHANGED <<now, maxRequests, windowMs, maxSize, ttlMs, workflowVars,
                 timeoutMs, tasks, attempts, fetchCalls, svc, abort, concVars>>

\* POST /crawl of a url the cache does not hold: CrawlService.crawlUrl calls
\* workflow.run, which calls fetchHtmlTask, whose pRetry makes its first
\* attempt; one request at a time awaits the crawl, and a new pipeline
\* starts once the tasks of the previous one have settled
PostMiss(id, url) ==
  /\ Allowed(id)
  /\ svc.state = "idle"
  /\ ~CacheHit(url)
  /\ \A i \in 1..NumTasks : stageStatus[i] # "running"
  /\ fetchCalls < MaxCrawls
  /\ CheckLimitStep(id)
  /\ GetStep(url)
  /\ RunStep([stage |-> "initial", url |-> url],
             [hasTimeout |-> TRUE, timeoutMs |-> timeoutMs])
  /\ attempts' = 1
  /\ fetchCalls' = fetchCalls + 1
  /\ abort' = [state |-> "armed", due |-> now + MaxFetchTimeout]
  /\ svc' = [state |-> "pending", id |-> id, url |-> url]
  /\ UNCHANGED <<now, maxRequests, windowMs, maxSize, ttlMs, timeoutMs, tasks,
                 response, concVars>>

\* the promise the awaiting request waits for has settled: its continuation
\* (the rest of crawlUrl and of the handler) runs before any other event
ReturnReady == svc.state = "pending" /\ result.state \in {"resolved", "rejected"}

\* the timer of fetchHtmlTask fires: controller.abort(); the attempt in
\* flight, if any, and every later one fail with the AbortError of fetch
AbortFires ==
  /\ ~ReturnReady
  /\ abort.state = "armed"
  /\ now >= abort.due
  /\ abort' = [abort EXCEPT !.state = "fired"]
  /\ UNCHANGED <<now, cacheVars, limiterVars, workflowVars, timeoutMs, tasks,
                 attempts, fetchCalls, svc, response, concVars>>

\* pRetry: an attempt failed (the request, or the aborted signal) and
\* retries are left: fetch is called again with the same controller.signal,
\* the timer set before pRetry being left as it is, armed or fired
FetchRetry ==
  /\ ~ReturnReady
  /\ stageStatus[1] = "running"
  /\ RetriesLeft(attempts)
  /\ attempts' = attempts + 1
  /\ UNCHANGED <<now, cacheVars, limiterVars, workflowVars, timeoutMs, tasks,
                 fetchCalls, svc, response, abort, concVars>>

\* pRetry: the last attempt failed with err, which fetchHtmlTask raises
\* before it reaches clearTimeout
FetchGivesUp(err) ==
  /\ ~ReturnReady
  /\ ~RetriesLeft(attempts)
  /\ SettleStep(tasks, 1, FALSE, err)
  /\ UNCHANGED <<now, cacheVars, limiterVars, serviceVars, concVars>>

\* fetchHtmlTask: an attempt got a response before the signal was aborted
\* (clearTimeout), and the response is not ok
FetchNotOk(status) ==
  /\ ~ReturnReady
  /\ abort.state = "armed"
  /\ ~Ok(status)
  /\ SettleStep(tasks, 1, FALSE, FetchFailedError(status))
  /\ abort' = [abort EXCEPT !.state = "cleared"]
  /\ UNCHANGED <<now, cacheVars, limiterVars, timeoutMs, tasks, attempts,
                 fetchCalls, svc, response, concVars>>

\* fetchHtmlTask: an attempt got a response before the signal was aborted
\* (clearTimeout), the response is ok and its body is html
FetchOk(status, html) ==
  /\ ~ReturnReady
  /\ abort.state = "armed"
  /\ Ok(status)
  /\ SettleStep(tasks, 1, TRUE, FetchHtmlTask(received[1], html))
  /\ abort' = [abort EXCEPT !.state = "cleared"]
  /\ UNCHANGED <<now, cacheVars, limiterVars, timeoutMs, tasks, attempts,
                 fetchCalls, svc, response, concVars>>

\* one of the later tasks returns
TaskResolve(i) ==
  /\ ~ReturnReady
  /\ SettleStep(tasks, i, TRUE, TaskRun(i, received[i]))
  /\ UNCHANGED <<now, cacheVars, limiterVars, serviceVars, concVars>>

\* one of the later tasks raises err
TaskReject(i, err) ==
  /\ ~ReturnReady
  /\ SettleStep(tasks, i, FALSE, err)
  /\ UNCHANGED <<now, cacheVars, limiterVars, serviceVars, concVars>>

\* the crawl of the awaiting request succeeded: CachedCrawlService stores
\* the data and the handler answers 200
ReturnSuccess ==
  LET r == CrawlResultOf(result, timer.ms) IN
  /\ ReturnReady
  /\ CacheWrite(r).store
  /\ SetStep(svc.url, CacheWrite(r).value)
  /\ response' = [status |-> IF r.success THEN 200 ELSE 500, id |-> svc.id,
                  url |-> svc.url, hit |-> FALSE, body |-> r]
  /\ svc' = Idle
  /\ UNCHANGED <<now, maxSize, ttlMs, limiterVars, workflowVars, timeoutMs,
                 tasks, attempts, fetchCalls, abort, concVars>>

\* the crawl of the awaiting request failed: the handler answers 500
ReturnFailure ==
  LET r == CrawlResultOf(result, timer.ms) IN
  /\ ReturnReady
  /\ ~CacheWrite(r).store
  /\ response' = [status |-> IF r.success THEN 200 ELSE 500, id |-> svc.id,
                  url |-> svc.url, hit |-> FALSE, body |-> r]
  /\ svc' = Idle
  /\ UNCHANGED <<now, cacheVars, limiterVars, workflowVars, timeoutMs, tasks,
                 attempts, fetchCalls, abort, concVars>>

\* time passes
ServiceTick ==
  /\ ~ReturnReady
  /\ now < MaxServiceTime
  /\ now' = now + 1
  /\ UNCHANGED <<cacheVars, limiterVars, workflowVars, serviceVars, concVars>>

ServiceNext ==
  \/ \E id \in Clients, body \in Bodies : PostDenied(id, body)
  \/ \E id \in Clients, body \in Bodies : PostInvalid(id, body)
  \/ \E id \in Clients, url \in Urls : PostHit(id, url)
  \/ \E id \in Clients, url \in Urls : PostMiss(id, url)
  \/ AbortFires
  \/ FetchRetry
  \/ \E err \in Errs : FetchGivesUp(err)
  \/ \E status \in Statuses : FetchNotOk(status)
  \/ \E status \in Statuses, html \in Htmls : FetchOk(status, html)
  \/ \E i \in 2..NumTasks : TaskResolve(i)
  \/ \E i \in 2..NumTasks, err \in Errs : TaskReject(i, err)
  \/ Timeout
  \/ ReturnSuccess
  \/ ReturnFailure
  \/ ServiceTick

----------------------------------------------------------------------------
(* Concurrent calls of CachedCrawlService.crawlUrl *)

\* the slots of requests that may be in progress at the same time
Slots == {1, 2}

\* the context objects a call may create, named by the slot of the call and
\* the number of the task that created them, 0 for the initial context that
\* CrawlService.crawlUrl creates
ObjIds == Slots \X (0..NumTasks)

NullRef == <<0, 0>>

\* a slot without a crawl in progress
NoRun == [pc |-> "idle", url |-> None, stage |-> 0, ctx |-> NullRef]

ConcurrentNew ==
  /\ runs = [r \in Slots |-> NoRun]
  /\ heap = <<>>

\* the objects of slot r become garbage when its call returns
Release(h, r) == [o \in {x \in DOMAIN h : x[1] # r} |-> h[o]]

\* mutation of TaskReturn: the task writes its fields into the context it
\* was given and returns that object
TaskReturnsInput(in, fresh) == in

\* return { ...ctx, stage, .. } and return { stage, url, html, title }: the
\* object a task returns is a new one, not the one it was given
TaskReturn(in, fresh) == fresh

\* crawlUrl(url) of a url the cache holds: answered at once
ConcurrentHit(r, url) ==
  /\ runs[r].pc = "idle"
  /\ CacheHit(url)
  /\ GetStep(url)
  /\ UNCHANGED <<now, maxSize, ttlMs, limiterVars, workflowVars, serviceVars,
                 concVars>>

\* crawlUrl(url) of a url the cache does not hold: CrawlService.crawlUrl
\* creates the initial context and awaits workflow.run, which calls the
\* first task with it
ConcurrentMiss(r, url) ==
  /\ runs[r].pc = "idle"
  /\ ~CacheHit(url)
  /\ GetStep(url)
  /\ heap' = MapSet(heap, <<r, 0>>, [stage |-> "initial", url |-> url])
  /\ runs' = [runs EXCEPT ![r] =
       [pc |-> "running", url |-> url, stage |-> 1, ctx |-> <<r, 0>>]]
  /\ UNCHANGED <<now, maxSize, ttlMs, limiterVars, workflowVars, serviceVars>>

\* the task in flight of the call in slot r returns (the fetch task on a
\* page html): the pipeline calls the next task with the returned context
\* or, after the last task, resolves
ConcurrentStage(r, html) ==
  LET i == runs[r].stage
      in == runs[r].ctx
      out == TaskReturn(in, <<r, i>>)
  IN
  /\ runs[r].pc = "running"
  /\ i > 1 => html = heap[in].html
  /\ heap' = MapSet(heap, out, IF i = 1 THEN FetchHtmlTask(heap[in], html)
                                        ELSE TaskRun(i, heap[in]))
  /\ runs' = [runs EXCEPT ![r] =
       IF i < NumTasks
         THEN [pc |-> "running", url |-> runs[r].url, stage |-> i + 1,
               ctx |-> out]
         ELSE [pc |-> "settled", url |-> runs[r].url, stage |-> 0,
               ctx |-> out]]
  /\ UNCHANGED <<now, cacheVars, limiterVars, workflowVars, serviceVars>>

\* the task in flight of the call in slot r raises, or the deadline of the
\* run fires: crawlUrl returns a failure and nothing is stored
ConcurrentFail(r) ==
  /\ runs[r].pc = "running"
  /\ runs' = [runs EXCEPT ![r] = NoRun]
  /\ heap' = Release(heap, r)
  /\ UNCHANGED <<now, cacheVars, limiterVars, workflowVars, serviceVars>>

\* the run of the call in slot r has resolved: CrawlService.crawlUrl builds
\* the result, CachedCrawlService stores its data and returns
ConcurrentReturn(r) ==
  LET res == CrawlResultOf(Resolved(heap[runs[r].ctx]), timeoutMs) IN
  /\ runs[r].pc = "settled"
  /\ CacheWrite(res).store
  /\ SetStep(runs[r].url, CacheWrite(res).value)
  /\ runs' = [runs EXCEPT ![r] = NoRun]
  /\ heap' = Release(heap, r)
  /\ UNCHANGED <<now, maxSize, ttlMs, limiterVars, workflowVars, serviceVars>>

\* time passes
ConcurrentTick ==
  /\ now < MaxConcurrentTime
  /\ now' = now + 1
  /\ UNCHANGED <<cacheVars, limiterVars, workflowVars, serviceVars, concVars>>

ConcurrentNext ==
  \/ \E r \in Slots, url \in Urls : ConcurrentHit(r, url)
  \/ \E r \in Slots, url \in Urls : ConcurrentMiss(r, url)
  \/ \E r \in Slots, html \in Htmls : ConcurrentStage(r, html)
  \/ \E r \in Slots : ConcurrentFail(r)
  \/ \E r \in Slots : ConcurrentReturn(r)
  \/ ConcurrentTick

----------------------------------------------------------------------------
(* The rate-limit middleware in front of the handler *)

\* the clock of the middleware's specification moves by half a window
HalfWindow == (windowMs + 1) \div 2

\* time passes between two requests
MiddlewareTick ==
  /\ now < MaxClock * HalfWindow
  /\ now' = now + HalfWindow
  /\ UNCHANGED <<cacheVars, limiterVars, workflowVars, serviceVars, concVars>>

\* requests that the middleware answers itself or hands to a handler that
\* answers at once
MiddlewareNext ==
  \/ \E id \in Clients, body \in Bodies : PostDenied(id, body)
  \/ \E id \in Clients, body \in Bodies : PostInvalid(id, body)
  \/ MiddlewareTick

----------------------------------------------------------------------------
(* The specifications *)

\* calls of crawlUrl side by side on a cache of any small capacity
ConcurrentSpecInit ==
  /\ now = 0
  /\ maxSize \in 0..(Cardinality(Urls) - 1)
  /\ ttlMs = MaxTtl
  /\ CacheNew
  /\ LimiterDefault
  /\ WorkflowNew
  /\ ServiceDefault
  /\ ConcurrentNew

SpecConcurrent == ConcurrentSpecInit /\ [][ConcurrentNext]_vars

\* the middleware under the default configuration or a small one
MiddlewareSpecInit ==
  /\ now = 0
  /\ CacheDefault
  /\ LimiterInit \/ LimiterDefault
  /\ WorkflowNew
  /\ ServiceDefault
  /\ ConcurrentNew

SpecMiddleware == MiddlewareSpecInit /\ [][MiddlewareNext]_vars


\* the service with a small cache, a tight limit and a short deadline
ServiceSpecInit ==
  /\ now = 0
  /\ maxSize = 1
  /\ ttlMs = MaxTtl
  /\ CacheNew
  /\ maxRequests = 1
  /\ windowMs = MaxWindow
  /\ LimiterNew
  /\ WorkflowNew
  /\ timeoutMs = MaxTimeout
  /\ tasks \in WorkflowSizes
  /\ ServiceNew
  /\ ConcurrentNew

SpecService == ServiceSpecInit /\ [][ServiceNext]_vars

\* time passes while the timer of run() is set and its time has not come:
\* the clock reaches the time the timer is set for
DeadlineTick ==
  /\ timer.state = "armed"
  /\ now < timer.due
  /\ now' = now + 1
  /\ UNCHANGED <<cacheVars, limiterVars, workflowVars, serviceVars, concVars>>

\* CrawlService.crawlUrl: await this.workflow.run(initialCtx, { timeoutMs:
\* this.timeoutMs }), the contexts being left abstract
CrawlRun(init) == Run(init, [hasTimeout |-> TRUE, timeoutMs |-> timeoutMs])

CrawlLiveInit ==
  /\ now = 0
  /\ CacheDefault
  /\ LimiterDefault
  /\ WorkflowNew
  /\ timeoutMs \in 1..MaxTimeout
  /\ tasks = NumTasks
  /\ ServiceNew
  /\ ConcurrentNew

CrawlLiveNext ==
  \/ \E init \in Ctxs : CrawlRun(init)
  \/ \E i \in 1..NumTasks, out \in Ctxs : StageResolve(i, out)
  \/ \E i \in 1..NumTasks, err \in Errs : StageReject(i, err)
  \/ Timeout
  \/ WorkflowTick
  \/ DeadlineTick

\* the run of a crawl on an event loop that keeps running: time passes up
\* to the deadline of the run, and a timer that is due fires; no task is
\* required to settle
SpecCrawlLive ==
  /\ CrawlLiveInit
  /\ [][CrawlLiveNext]_vars
  /\ WF_vars(DeadlineTick)
  /\ WF_vars(Timeout)

CacheSpecInit ==
  /\ now = 0
  /\ CacheInit
  /\ LimiterDefault
  /\ WorkflowNew
  /\ ServiceDefault
  /\ ConcurrentNew

SpecCache == CacheSpecInit /\ [][CacheNext]_vars

LimiterSpecInit ==
  /\ now = 0
  /\ CacheDefault
  /\ LimiterInit
  /\ WorkflowNew
  /\ ServiceDefault
  /\ ConcurrentNew

SpecLimiter == LimiterSpecInit /\ [][LimiterNext]_vars

WorkflowSpecInit ==
  /\ now = 0
  /\ CacheDefault
  /\ LimiterDefault
  /\ WorkflowNew
  /\ ServiceDefault
  /\ ConcurrentNew

SpecWorkflow == WorkflowSpecInit /\ [][WorkflowNext]_vars

\* the components side by side
Init == WorkflowSpecInit

Next == CacheNext \/ LimiterNext \/ WorkflowNext

Spec == Init /\ [][Next]_vars

----------------------------------------------------------------------------
(* Claims about CacheService, checked under SpecCache *)

WasSet(k) == lastSet[k].at >= 0

\* the last set(k, ..) has been followed by no delete and no eviction of k
Live(k) == lastSet[k].value # None

\* C1: the number of entries stored in the cache never exceeds maxSize,
\* for every configured maxSize and after any sequence of get, set, delete.
C1_SizeWithinMaxSize == Cardinality(DOMAIN cache) <= maxSize

\* C2: set of a key that is not in the cache, when the cache holds maxSize
\* entries, removes exactly one existing entry, the head of the recency order,
\* and every other entry keeps its value and expiry.
C2_SetAtCapacityEvictsHead ==
  [][\A k \in Keys, v \in Values :
       (Set(k, v) /\ ~MapHas(cache, k) /\ Cardinality(DOMAIN cache) = maxSize)
         => /\ Len(order) > 0
            /\ DOMAIN cache' = ((DOMAIN cache) \ {Head(order)}) \cup {k}
            /\ Cardinality(DOMAIN cache') = Cardinality(DOMAIN cache)
            /\ \A j \in (DOMAIN cache) \ {Head(order)} : cache'[j] = cache[j]]_vars

\* C3: a get that hits makes the key the most recently used one, the last of
\* the recency order, so the next eviction removes some other key.
C3_HitRefreshesRecency ==
  [][\A k \in Keys :
       (Get(k) /\ cret'.val # Undefined)
         => (order' # <<>> /\ order'[Len(order')] = k)]_vars

\* C4: after set(k, v), a get(k) before the TTL has elapsed, with no set or
\* delete of k and no eviction of k in between, returns exactly v.
C4_RoundTrip ==
  [][\A k \in Keys :
       (Get(k) /\ Live(k) /\ now < lastSet[k].at + ttlMs)
         => cret'.val = lastSet[k].value]_vars

C4_Witness ==
  /\ cret.op = "get"
  /\ Live(cret.key)
  /\ lastSet[cret.key].at < now
  /\ now < lastSet[cret.key].at + ttlMs
  /\ cret.val = lastSet[cret.key].value
  /\ Cardinality(DOMAIN cache) > 1

\* C5 as stated: once the TTL has elapsed since the last set(k, ..), that is
\* from the instant lastSet + ttlMs on, get(k) returns absent and k is gone
\* from the map and from the recency order.
C5_ExpiredAtTtl ==
  [][\A k \in Keys :
       (Get(k) /\ WasSet(k) /\ now >= lastSet[k].at + ttlMs)
         => /\ cret'.val = Undefined
            /\ ~MapHas(cache', k)
            /\ IndexOf(order', k) = 0]_vars

\* C5 as amended: once more than the TTL has elapsed since the last
\* set(k, ..) (Date.now() > expiresAt), get(k) returns absent and k is gone
\* from the map and from the recency order; a get of a key that is not stored
\* returns absent and changes nothing, so later gets are absent as well.
C5_ExpiredAfterTtl ==
  [][\A k \in Keys :
       /\ (Get(k) /\ WasSet(k) /\ now > lastSet[k].at + ttlMs)
            => /\ cret'.val = Undefined
               /\ ~MapHas(cache', k)
               /\ IndexOf(order', k) = 0
       /\ (Get(k) /\ ~MapHas(cache, k))
            => /\ cret'.val = Undefined
               /\ cache' = cache
               /\ order' = order]_vars

\* a get found a stored entry older than its TTL and dropped it
C5_Witness ==
  /\ cret.op = "get"
  /\ cret.val = Undefined
  /\ cret.gone = {cret.key}
  /\ WasSet(cret.key)
  /\ now > lastSet[cret.key].at + ttlMs
  /\ ~MapHas(cache, cret.key)
  /\ Cardinality(DOMAIN cache) > 0

----------------------------------------------------------------------------
(* Claims about RateLimiter, checked under SpecLimiter *)

\* C6: under a non-decreasing clock and fixed maxRequests = N, windowMs = W,
\* every time interval shorter than W holds at most N admitted checks of one
\* identifier: any N + 1 admitted checks span at least W.
C6_AtMostNPerWindow ==
  \A id \in Ids : \A i, j \in 1..Len(admitted[id]) :
    (j - i >= maxRequests) => (admitted[id][j] - admitted[id][i] >= windowMs)

\* a check was denied after N admitted ones, the first of them at an earlier
\* instant that is still inside the window
C6_Witness ==
  /\ lret.op = "checkLimit"
  /\ ~lret.allowed
  /\ maxRequests >= 2
  /\ Len(admitted[lret.id]) >= maxRequests
  /\ LastN(admitted[lret.id], maxRequests)[1] < now
  /\ now - LastN(admitted[lret.id], maxRequests)[1] < windowMs

\* C7: when an identifier holds N recorded timestamps, a check made once W
\* has elapsed from the earliest of them is allowed, whatever was denied in
\* between.
C7_AllowedAfterWindow ==
  [][\A id \in Ids :
       (/\ CheckLimit(id)
        /\ Len(Timestamps(requests, id)) >= 1
        /\ Len(Timestamps(requests, id)) = maxRequests
        /\ now - Timestamps(requests, id)[1] >= windowMs)
         => lret'.allowed]_vars

\* an admitted check at the very instant the earliest timestamp left the
\* window, after a denied one
C7_Witness ==
  /\ lret.op = "checkLimit"
  /\ lret.allowed
  /\ lret.afterDenied
  /\ Len(admitted[lret.id]) = maxRequests + 1
  /\ now - admitted[lret.id][1] = windowMs
  /\ Len(requests[lret.id]) = maxRequests

\* C8: a denied checkLimit leaves the stored history of every identifier
\* exactly as it was.
C8_DeniedRecordsNothing ==
  [][\A id \in Ids :
       (CheckLimit(id) /\ ~lret'.allowed) => requests' = requests]_vars

\* a denied check of an identifier at its limit, next to another identifier
\* that has a history too
C8_Witness ==
  /\ lret.op = "checkLimit"
  /\ ~lret.allowed
  /\ maxRequests >= 1
  /\ DOMAIN requests = Ids
  /\ Len(requests[lret.id]) = maxRequests
  /\ deniedSince[lret.id]

----------------------------------------------------------------------------
(* Claims about Workflow.run, checked under SpecWorkflow *)

Started(i) == stageStatus[i] # "idle"

\* C9: the tasks of one run execute strictly in list order: a task starts
\* only after the one before it has resolved, is called with exactly the
\* value that one returned (the first with the initial context), none is
\* skipped, and no two are in progress at the same time.
C9_StagesInOrder ==
  /\ Cardinality({i \in 1..NumTasks : stageStatus[i] = "running"}) <= 1
  /\ Started(1) => received[1] = initial
  /\ \A i \in 1..(NumTasks - 1) :
       Started(i + 1) =>
         (stageStatus[i] = "resolved" /\ received[i + 1] = returned[i])
  /\ chain.state = "resolved" =>
       /\ \A i \in 1..NumTasks : stageStatus[i] = "resolved"
       /\ chain.value = returned[NumTasks]
  /\ (result.state = "pending" /\ timer.state # "fired") =>
       \E i \in 1..NumTasks : stageStatus[i] = "running"

\* a run went through all tasks, two of which returned values that differ
\* from what they were given
C9_Witness ==
  /\ result.state = "resolved"
  /\ \A i \in 1..NumTasks : stageStatus[i] = "resolved"
  /\ returned[1] # initial
  /\ returned[2] # returned[1]
  /\ result.value = returned[NumTasks]

\* C10 as stated: if task i rejects, no later task is ever invoked and run()
\* rejects with the very error task i raised.
C10_FirstFailureIsResult ==
  \A i \in 1..NumTasks :
    stageStatus[i] = "rejected" =>
      /\ \A j \in (i + 1)..NumTasks : ~Started(j)
      /\ result = Rejected(returned[i])

\* C10 as amended: if task i rejects, no later task is ever invoked, the
\* pipeline's promise rejects with the very error task i raised, and so does
\* run(), unless the timer of timeoutMs fired before the task failed: then
\* run() has already rejected with TimeoutError and stays so.
C10_FirstFailureShortCircuits ==
  \A i \in 1..NumTasks :
    stageStatus[i] = "rejected" =>
      /\ \A j \in (i + 1)..NumTasks : ~Started(j)
      /\ chain = Rejected(returned[i])
      /\ IF timer.state = "fired"
           THEN result = Rejected(TimeoutError)
           ELSE result = Rejected(returned[i])

\* the first task failed in a run with a deadline that had not fired: the
\* other four never started and run() carries the task's error
C10_Witness ==
  /\ stageStatus[1] = "rejected"
  /\ \A j \in 2..NumTasks : stageStatus[j] = "idle"
  /\ timer.state = "cleared"
  /\ result = Rejected(returned[1])
  /\ returned[1] \in Errs

----------------------------------------------------------------------------
(* Claims about the deadline of Workflow.run, checked under SpecWorkflow *)

\* C11: when run() is given timeoutMs and the chain has not produced its
\* final context before timeoutMs elapses, run() fails with a CrawlError of
\* variant timeout whose timeoutMs is the configured deadline and whose
\* stage names a task of the workflow, the one in flight.
C11_DeadlineRaisesCrawlTimeout ==
  timer.state = "fired" =>
    /\ result.state = "rejected"
    /\ LET e == ErrorProps(result.value, timer.ms) IN
         /\ "type" \in DOMAIN e
         /\ e.type = "timeout"
         /\ "timeoutMs" \in DOMAIN e
         /\ e.timeoutMs = timer.ms
         /\ "stage" \in DOMAIN e
         /\ \E i \in 1..NumTasks : e.stage = Tasks[i]

\* C12 as stated: the deadline bounds the whole chain, so a run whose chain
\* has settled only after more than timeoutMs (cumulative duration above the
\* deadline) has failed with the timeout.
C12_OverDeadlineFails ==
  (timer.state # "none" /\ chain.state \in {"resolved", "rejected"}
     /\ now > timer.due)
    => (result.state = "rejected" /\ result.value = TimeoutError)

\* C12 as amended: the timer is set once, at the beginning of run(), to
\* fire timeoutMs later, and no task resets it; when it fires while the
\* chain is unsettled run() fails with the timeout, whatever task is in
\* flight and however short each task was; run() never fails with the
\* timeout before timeoutMs has elapsed.
C12_DeadlineSetOnce ==
  [][/\ (timer.state = "none" /\ timer'.state # "none")
          => (timer'.state = "armed" /\ timer'.due = now + timer'.ms)
     /\ (timer.state # "none")
          => (timer'.ms = timer.ms /\ timer'.due = timer.due)
     /\ (timer.state = "armed" /\ timer'.state = "fired")
          => (result.state = "pending" /\ result' = Rejected(TimeoutError))
     /\ (result.state = "pending" /\ result'.state = "rejected"
           /\ result'.value = TimeoutError)
          => (timer.state = "armed" /\ now >= timer.due)]_vars

\* the deadline fired at its due time while the third task was in flight
C12_Witness ==
  /\ timer.state = "fired"
  /\ timer.ms = MaxTimeout
  /\ now = timer.due
  /\ stageStatus[1] = "resolved"
  /\ stageStatus[2] = "resolved"
  /\ stageStatus[3] = "running"
  /\ result.state = "rejected"
  /\ result.value = TimeoutError

----------------------------------------------------------------------------
(* Claims about the crawl service, checked under SpecService *)

\* the step in which the awaiting request gets the result of its crawl
Returns == svc.state = "pending" /\ svc'.state = "idle"

\* the tasks of the run have all returned, each called with what the one
\* before it returned, the first with the initial context of url
AllStagesInOrder(url) ==
  /\ tasks = NumTasks
  /\ \A i \in 1..NumTasks : stageStatus[i] = "resolved"
  /\ received[1] = [stage |-> "initial", url |-> url]
  /\ \A i \in 1..(NumTasks - 1) : received[i + 1] = returned[i]

\* C13: crawlUrl answers {success: true, data: {markdown, ..}} only if all
\* five stages completed successfully, in order, before the deadline fired,
\* the markdown being the last stage's; in every other outcome the answer is
\* {success: false, error} and carries no markdown.
C13_NoPartialResult ==
  [][Returns =>
       LET r == response'.body IN
       IF r.success
         THEN /\ AllStagesInOrder(svc.url)
              /\ result.state = "resolved"
              /\ timer.state = "cleared"
              /\ DOMAIN r = {"success", "data"}
              /\ r.data.markdown = returned[NumTasks].markdown
         ELSE /\ DOMAIN r = {"success", "error"}
              /\ "markdown" \notin DOMAIN r.error]_vars

\* a crawl was answered as a failure after its deadline fired, when the
\* first four stages had produced their part of the result
C13_Witness ==
  /\ svc.state = "idle"
  /\ response.status = 500
  /\ ~response.body.success
  /\ timer.state = "fired"
  /\ stageStatus[4] = "resolved"
  /\ "cleanedDocument" \in DOMAIN returned[4]

\* the step stores a new entry for u or replaces the one it had
Writes(u) == MapHas(cache', u) /\ (~MapHas(cache, u) \/ cache'[u] # cache[u])

\* C14: CachedCrawlService writes a cache entry for a url only when the
\* crawl of that url returned success; a crawl that failed or timed out
\* returns with the cache exactly as it was, and no later step of its
\* abandoned pipeline changes the cache: the only other change is the
\* lookup of a new request dropping the expired entry of its url.
C14_OnlySuccessCached ==
  [][/\ \A u \in Urls :
          Writes(u) => (Returns /\ response'.body.success /\ svc.url = u
                         /\ cache'[u].value = response'.body.data)
     /\ (Returns /\ ~response'.body.success)
          => (cache' = cache /\ order' = order)
     /\ (cache' # cache \/ order' # order)
          => \/ Returns /\ response'.body.success
             \/ /\ svc.state = "idle" /\ svc'.state = "pending"
                /\ cache' = MapDelete(cache, svc'.url)]_vars

\* a crawl timed out and was answered as a failure, its abandoned pipeline
\* went on to complete, and the cache holds nothing for its url
C14_Witness ==
  /\ svc.state = "idle"
  /\ response.status = 500
  /\ ~response.body.success
  /\ timer.state = "fired"
  /\ chain.state = "resolved"
  /\ IsCompleted(chain.value)
  /\ ~MapHas(cache, response.url)

\* C15: once a crawlUrl(u) has succeeded, a later crawlUrl(u) issued before
\* the TTL of the entry has elapsed, and while u is still stored, returns
\* {success: true} with the data of that crawl and does not invoke the
\* pipeline: the count of fetch invocations stays as it was.
C15_HitBypassesEngine ==
  [][\A u \in Urls, id \in Clients :
       ((PostHit(id, u) \/ PostMiss(id, u))
          /\ MapHas(cache, u) /\ now < lastSet[u].at + ttlMs)
         => /\ response'.status = 200
            /\ response'.url = u
            /\ response'.body = Success(lastSet[u].value)
            /\ fetchCalls' = fetchCalls
            /\ attempts' = attempts
            /\ svc' = svc
            /\ UNCHANGED workflowVars]_vars

\* a request was answered from the entry that the one crawl made so far
\* had stored at an earlier time
C15_Witness ==
  /\ response.hit
  /\ response.status = 200
  /\ fetchCalls = 1
  /\ lastSet[response.url].at < now
  /\ now < lastSet[response.url].at + ttlMs
  /\ response.body.data = lastSet[response.url].value
  /\ \A i \in 1..NumTasks : stageStatus[i] = "resolved"

\* a POST /crawl of caller id with this body is handled in the step
Posts(id, body) ==
  \/ PostDenied(id, body)
  \/ PostInvalid(id, body)
  \/ ValidInput(body) /\ (PostHit(id, body.url) \/ PostMiss(id, body.url))

\* C16: a request whose checkLimit is denied is answered 429 before any
\* other work: whatever its body, valid or not, the answer is the limiter's,
\* no cache call is made, no pipeline is started, and the cache is unchanged.
C16_DeniedAnsweredFirst ==
  [][\A id \in Clients, body \in Bodies :
       (Posts(id, body)
          /\ ~CheckIn(requests, id, maxRequests, windowMs, now).allowed)
         => /\ response'.status = 429
            /\ response'.body = [error |-> "Rate limit exceeded"]
            /\ UNCHANGED <<cache, order, cret, lastSet>>
            /\ UNCHANGED <<workflowVars, fetchCalls, attempts, svc>>]_vars

\* a caller over the limit was turned away while the cache held an entry
C16_Witness ==
  /\ response.status = 429
  /\ lret.op = "checkLimit"
  /\ ~lret.allowed
  /\ lret.id = response.id
  /\ DOMAIN cache # {}
  /\ cret.op = "set"

\* r is {success: true, data} or {success: false, error}, the error of
\* type unknown
IsCrawlResult(r) ==
  IF r.success
    THEN DOMAIN r = {"success", "data"}
    ELSE DOMAIN r = {"success", "error"} /\ r.error.type = "unknown"

\* C17: whatever the pipeline did (completed, ended in a context that is not
\* completed, a stage raised any value, the deadline expired), the promise
\* of run() once settled is turned by CrawlService.crawlUrl into exactly one
\* of {success: true, data} and {success: false, error}, a raised value
\* being reported as the cause of an error of type unknown; and what
\* CachedCrawlService.crawlUrl answered is such a result as well.
C17_NeverThrows ==
  /\ result.state \in {"resolved", "rejected"}
       => LET r == CrawlResultOf(result, timer.ms) IN
          /\ IsCrawlResult(r)
          /\ result.state = "rejected"
               => (~r.success /\ r.error.cause = result.value)
  /\ response.url \in Urls => IsCrawlResult(response.body)

\* a stage raised a value that is no Error object and the crawl was
\* answered as a failure of type unknown
C17_Witness ==
  /\ svc.state = "idle"
  /\ response.url \in Urls
  /\ ~response.body.success
  /\ response.body.error.type = "unknown"
  /\ response.body.error.message = "Unknown error"
  /\ response.body.error.cause \in NonErrors
  /\ stageStatus[3] = "rejected"

\* C18: the status of a failed POST /crawl is the one crawlErrorToStatusCode
\* gives for the variant of its error; a crawl that exceeded its deadline is
\* answered 504 and a crawl whose fetch got a response that is not ok is
\* answered 502.
C18_StatusFromVariant ==
  (response.url \in Urls /\ ~response.body.success)
    => LET error == response.body.error IN
       /\ response.status = CrawlErrorToStatusCode(error.type)
       /\ ("cause" \in DOMAIN error /\ error.cause = TimeoutError)
            => response.status = 504
       /\ ("cause" \in DOMAIN error
             /\ \E status \in Statuses : error.cause = FetchFailedError(status))
            => response.status = 502

----------------------------------------------------------------------------
(* Claims about the crawl tasks, checked under SpecService *)

\* C19: on a response that is not ok the fetch stage fails with the
\* CrawlError variant fetch_failed, carrying the status and statusText of
\* the response and the url, and the request is not retried.
C19_NonOkIsFetchFailed ==
  \A status \in Statuses :
    (stageStatus[1] = "rejected" /\ returned[1] = FetchFailedError(status))
      => LET e == ErrorProps(returned[1], timer.ms) IN
         /\ "type" \in DOMAIN e
         /\ e.type = "fetch_failed"
         /\ "status" \in DOMAIN e
         /\ e.status = status
         /\ "statusText" \in DOMAIN e
         /\ e.statusText = StatusText(status)
         /\ "url" \in DOMAIN e
         /\ e.url = received[1].url

\* C20: each stage that has returned was given a context of its own stage
\* tag and returned one with the next tag of the fixed order, holding every
\* field of its input with the value unchanged, plus the stage's new
\* field(s); so a completed context holds the url of the request and the
\* html, title, metadata, document and cleanedDocument of the earlier stages.
C20_MonotonicAccumulation ==
  /\ \A i \in 1..NumTasks :
       stageStatus[i] = "resolved"
         => /\ received[i].stage = StageOrder[i]
            /\ returned[i].stage = StageOrder[i + 1]
            /\ DOMAIN returned[i] = (DOMAIN received[i]) \cup NewFields[i]
            /\ NewFields[i] \cap (DOMAIN received[i]) = {}
            /\ \A f \in (DOMAIN received[i]) \ {"stage"} :
                 returned[i][f] = received[i][f]
  /\ stageStatus[NumTasks] = "resolved"
       => /\ returned[NumTasks].url = initial.url
          /\ returned[NumTasks].html = returned[1].html
          /\ returned[NumTasks].title = returned[1].title
          /\ returned[NumTasks].metadata = returned[2].metadata
          /\ returned[NumTasks].document = returned[3].document
          /\ returned[NumTasks].cleanedDocument = returned[4].cleanedDocument

\* a run completed on a page with a title
C20_Witness ==
  /\ stageStatus[NumTasks] = "resolved"
  /\ returned[NumTasks].stage = "completed"
  /\ returned[NumTasks].title = "t1"
  /\ DOMAIN returned[NumTasks] =
       {"stage", "url", "html", "title", "metadata", "document",
        "cleanedDocument", "markdown"}

----------------------------------------------------------------------------
(* Claims about single CacheService operations, checked under SpecCache *)

\* the keys of s other than k, in the order of s
Others(s, k) == SelectSeq(s, LAMBDA j : j # k)

\* C22: set(k, v) of a key that is already stored replaces its value, makes
\* k the most recently used key (the last of the order, once), sets its
\* expiry to now + ttlMs and evicts nothing, even when the cache holds
\* maxSize entries; every other entry keeps its value, its expiry and its
\* place among the others.
C22_SetExistingReplaces ==
  [][\A k \in Keys, v \in Values :
       (Set(k, v) /\ MapHas(cache, k))
         => /\ DOMAIN cache' = DOMAIN cache
            /\ cache'[k] = [value |-> v, expiresAt |-> now + ttlMs]
            /\ \A j \in (DOMAIN cache) \ {k} : cache'[j] = cache[j]
            /\ order' # <<>>
            /\ order'[Len(order')] = k
            /\ Len(order') = Len(order)
            /\ Others(order', k) = Others(order, k)]_vars

\* a stored key was set again, later and with another value, in a cache
\* that held maxSize entries, and nothing was evicted
C22_Witness ==
  /\ cret.op = "set"
  /\ cret.had
  /\ cret.gone = {}
  /\ maxSize >= 2
  /\ Cardinality(DOMAIN cache) = maxSize
  /\ order[Len(order)] = cret.key
  /\ cache[cret.key].expiresAt = now + ttlMs
  /\ \E j \in (DOMAIN cache) \ {cret.key} : cache[j].expiresAt < now + ttlMs

\* C23: a get, hit or miss, leaves the expiresAt of every entry that remains
\* unchanged, so every stored entry expires ttlMs after the last set of its
\* key, however often it has been read.
C23_GetKeepsExpiry ==
  [][/\ \A k \in Keys :
          Get(k) => /\ DOMAIN cache' \subseteq DOMAIN cache
                    /\ \A j \in DOMAIN cache' :
                         cache'[j].expiresAt = cache[j].expiresAt
     /\ \A j \in DOMAIN cache' : cache'[j].expiresAt = lastSet'[j].at + ttlMs]_vars

\* a get hit an entry after time had passed since its set, and the entry
\* still expires ttlMs after that set
C23_Witness ==
  /\ cret.op = "get"
  /\ cret.val # Undefined
  /\ MapHas(cache, cret.key)
  /\ lastSet[cret.key].at < now
  /\ cache[cret.key].expiresAt = lastSet[cret.key].at + ttlMs
  /\ Cardinality(DOMAIN cache) > 1

\* C24: delete(k) removes k from the map and from the order whether or not
\* its entry has expired, and returns true exactly when k was stored before
\* the call; when k is absent it returns false and changes nothing; in both
\* cases every other key keeps its value, its expiry and its place among
\* the others.
C24_DeleteRemovesOnlyKey ==
  [][\A k \in Keys :
       Delete(k)
         => /\ cret'.val = MapHas(cache, k)
            /\ ~MapHas(cache', k)
            /\ DOMAIN cache' = (DOMAIN cache) \ {k}
            /\ \A j \in DOMAIN cache' : cache'[j] = cache[j]
            /\ Others(order', k) = Others(order, k)
            /\ MapHas(cache, k) => IndexOf(order', k) = 0
            /\ ~MapHas(cache, k) => (cache' = cache /\ order' = order)]_vars

\* an entry older than its TTL was deleted, and delete returned true, while
\* a key set after it, not yet expired, stayed in the cache
C24_Witness ==
  /\ cret.op = "delete"
  /\ cret.had
  /\ cret.val = TRUE
  /\ now > lastSet[cret.key].at + ttlMs
  /\ ~MapHas(cache, cret.key)
  /\ Len(order) = 1
  /\ lastSet[order[1]].at > lastSet[cret.key].at
  /\ cache[order[1]].expiresAt >= now

----------------------------------------------------------------------------
(* Claims about retries and timers, checked under SpecService *)

\* the step in which a request starts a crawl: a new Workflow.run
NewRun == svc.state = "idle" /\ svc'.state = "pending"

C27_AtMostThreeAttempts ==
  [][/\ attempts' <= 3
     /\ NewRun => attempts' = 1
     /\ (~NewRun /\ attempts' # attempts)
          => /\ attempts' = attempts + 1
             /\ attempts <= 2
             /\ stageStatus[1] = "running"
     /\ (stageStatus[1] = "running" /\ stageStatus'[1] = "rejected"
           /\ returned'[1] \in Errs)
          => attempts = 3
     /\ (~NewRun /\ stageStatus[1] # "running") => attempts' = attempts]_vars

\* the fetch stage failed after its third attempt
C27_Witness ==
  /\ attempts = 3
  /\ stageStatus[1] = "rejected"
  /\ returned[1] \in Errs
  /\ chain = Rejected(returned[1])
  /\ \A i \in 2..NumTasks : stageStatus[i] = "idle"

\* C28: each fetch attempt, the first and each retry, has its own timeout:
\* when an attempt starts, the signal it is given is not aborted and the
\* timer that aborts it is due one fetch timeout later.
C28_PerAttemptTimeout ==
  [][(attempts' # attempts)
       => (abort'.state = "armed" /\ abort'.due = now + MaxFetchTimeout)]_vars

\* C29: cancellation on deadline: once the timer of run() has fired and
\* run() has reported the timeout, that run starts no further stage.
C29_NoStageAfterTimeout ==
  [][timer.state = "fired"
       => \A i \in 1..NumTasks :
            stageStatus'[i] = "running" => stageStatus[i] = "running"]_vars

----------------------------------------------------------------------------
(* Claims about the rate-limit middleware, checked under SpecMiddleware *)

\* the admitted checks of id that are less than W old
AdmittedWithin(id, W) ==
  Cardinality({i \in 1..Len(admitted[id]) : now - admitted[id][i] < W})

\* C25: every request the limiter denies is answered 429 with the body
\* {error} and a Retry-After of ceil(windowMs / 1000) seconds; under the
\* defaults (10 requests, 60000 ms) a request of an identifier with 10
\* admitted requests in the last 60 s is answered 429 with Retry-After 60,
\* and one with fewer reaches the handler.
C25_DeniedGets429RetryAfter ==
  [][\A id \in Clients, body \in Bodies :
       Posts(id, body)
         => /\ response'.status = 429
                 => /\ DOMAIN response'.body = {"error"}
                    /\ response'.retryAfter * 1000 >= windowMs
                    /\ (response'.retryAfter - 1) * 1000 < windowMs
            /\ ~lret'.allowed => response'.status = 429
            /\ (maxRequests = 10 /\ windowMs = 60000)
                 => IF AdmittedWithin(id, 60000) >= 10
                      THEN /\ response'.status = 429
                           /\ response'.retryAfter = 60
                      ELSE response'.status # 429]_vars

\* under the defaults an identifier was denied its 11th request in a
\* window, the first of the ten admitted ones made at an earlier instant
C25_Witness ==
  /\ maxRequests = 10
  /\ windowMs = 60000
  /\ response.status = 429
  /\ response.retryAfter = 60
  /\ lret.op = "checkLimit"
  /\ ~lret.allowed
  /\ Len(requests[response.id]) = 10
  /\ requests[response.id][1] < now
  /\ now - requests[response.id][1] < 60000

----------------------------------------------------------------------------
(* Claims about concurrent crawls, checked under SpecConcurrent *)

\* C21: under any interleaving of the get and set calls of crawlUrl
\* requests that run side by side, the number of cached entries never
\* exceeds maxSize and the recency order holds exactly the cached keys,
\* each once.
C21_CacheInvariantsInterleaved ==
  /\ Cardinality(DOMAIN cache) <= maxSize
  /\ Len(order) = Cardinality(DOMAIN cache)
  /\ {order[i] : i \in 1..Len(order)} = DOMAIN cache

\* the call in slot r has a context in hand
InProgress(r) == runs[r].pc # "idle"

\* C30: a task that returns hands back a new context object and leaves the
\* one it was given, and every other object, as it was; the context a run
\* has in hand was created by that run, so no two runs in progress hold the
\* same object and no step of one run creates or changes an object of
\* another.
C30_ContextsFreshAndPrivate ==
  [][/\ \A r \in Slots :
          (runs[r].pc = "running" /\ InProgress(r)' /\ runs'[r] # runs[r])
            => /\ runs'[r].ctx # runs[r].ctx
               /\ ~MapHas(heap, runs'[r].ctx)
               /\ MapHas(heap', runs'[r].ctx)
               /\ \A o \in DOMAIN heap : MapHas(heap', o) /\ heap'[o] = heap[o]
               /\ \A q \in Slots \ {r} : runs'[q] = runs[q]
               /\ \A o \in (DOMAIN heap') \ (DOMAIN heap) : o[1] = r
     /\ \A r \in Slots :
          InProgress(r)'
            => /\ runs'[r].ctx[1] = r
               /\ MapHas(heap', runs'[r].ctx)
               /\ heap'[runs'[r].ctx].url = runs'[r].url
     /\ \A r, q \in Slots :
          (r # q /\ InProgress(r)' /\ InProgress(q)')
            => runs'[r].ctx # runs'[q].ctx]_vars

\* two crawls of the same url are in progress, one at its third task and
\* one at its last, on pages that differ, each with a context of its own
C30_Witness ==
  /\ runs[1].pc = "running"
  /\ runs[2].pc = "running"
  /\ runs[1].url = runs[2].url
  /\ runs[1].stage = 3
  /\ runs[2].stage = NumTasks
  /\ runs[1].ctx # runs[2].ctx
  /\ heap[runs[1].ctx].stage = "metadata_extracted"
  /\ heap[runs[2].ctx].stage = "cleaned"
  /\ heap[runs[1].ctx].html # heap[runs[2].ctx].html
  /\ heap[<<1, 0>>] = [stage |-> "initial", url |-> runs[1].url]

----------------------------------------------------------------------------
(* Claims about the limiter's history, checked under SpecLimiter *)

\* C31 as stated: the history of an identifier that keeps being checked
\* grows without bound: nothing is ever removed from it, so it holds every
\* timestamp admitted so far, more than maxRequests of them in the end.
C31_HistoryGrowsUnbounded ==
  \A id \in Ids : Len(admitted[id]) <= Len(Timestamps(requests, id))

\* C31 as amended: the record of an identifier persists, no step removes a
\* key of the map, and the timestamps that have left the window stay stored
\* until the identifier is checked again; but an admitted check stores the
\* filtered sequence plus the new timestamp, so the stored sequence of an
\* identifier never holds more than maxRequests timestamps.
C31_HistoryBoundedByMaxRequests ==
  [][/\ DOMAIN requests \subseteq DOMAIN requests'
     /\ \A id \in DOMAIN requests' :
          /\ Len(requests'[id]) <= maxRequests
          /\ Len(requests'[id]) >= 1
     /\ \A id \in Ids :
          (CheckLimit(id) /\ lret'.allowed)
            => requests'[id] = Append(Recent(Timestamps(requests, id), now, windowMs), now)
     /\ \A id \in Ids :
          ~(CheckLimit(id) /\ lret'.allowed)
            => Timestamps(requests', id) = Timestamps(requests, id)]_vars

\* an identifier was admitted more often than maxRequests, so its oldest
\* timestamp was dropped, while the other identifier still holds a
\* timestamp that has left the window
C31_Witness ==
  /\ lret.op = "checkLimit"
  /\ lret.allowed
  /\ maxRequests >= 2
  /\ Len(admitted[lret.id]) = maxRequests + 1
  /\ Len(requests[lret.id]) <= maxRequests
  /\ \E other \in (DOMAIN requests) \ {lret.id} :
       now - requests[other][1] >= windowMs

\* C37: the answer of checkLimit(a, N, W) depends only on the earlier
\* admitted checks of a (fewer than N of them are less than W old), and a
\* check of a leaves the stored history of every other identifier as it is.
C37_IdentifiersIndependent ==
  [][\A id \in Ids :
       CheckLimit(id)
         => /\ lret'.allowed
                 = (Cardinality({i \in 1..Len(admitted[id]) :
                                   now - admitted[id][i] < windowMs})
                      < maxRequests)
            /\ \A other \in Ids \ {id} :
                 /\ MapHas(requests', other) = MapHas(requests, other)
                 /\ Timestamps(requests', other) = Timestamps(requests, other)
                 /\ admitted'[other] = admitted[other]]_vars

\* an identifier was admitted while the other one, at its limit inside the
\* window, had just been denied
C37_Witness ==
  /\ lret.op = "checkLimit"
  /\ lret.allowed
  /\ maxRequests >= 1
  /\ \E other \in (DOMAIN requests) \ {lret.id} :
       /\ deniedSince[other]
       /\ Len(requests[other]) = maxRequests
       /\ now - requests[other][1] < windowMs
  /\ Len(requests[lret.id]) = 1

----------------------------------------------------------------------------
(* Claims about the structure of the cache, checked under SpecCache *)

\* C34: after any sequence of get, set and delete the recency list order
\* holds exactly the keys of the entry map, each exactly once.
C34_OrderMatchesMap ==
  /\ Len(order) = Cardinality(DOMAIN cache)
  /\ {order[i] : i \in 1..Len(order)} = DOMAIN cache

\* a get dropped an expired entry from a cache that held two, and the
\* order holds the one key that is left
C34_Witness ==
  /\ cret.op = "get"
  /\ cret.gone = {cret.key}
  /\ Len(order) = 1
  /\ order[1] # cret.key
  /\ DOMAIN cache = {order[1]}

----------------------------------------------------------------------------
(* Claims about expiry and rate-limit slots through the service, checked
   under SpecService *)

\* C33: a crawlUrl(u) issued after u's cache entry has expired is a miss
\* that drops the entry and runs the pipeline again, and when a run
\* succeeds the cache afterwards holds the payload answered for u with
\* expiry now + ttlMs.
C33_ExpiredEntryRefreshed ==
  [][/\ \A id \in Clients, u \in Urls :
          ((PostHit(id, u) \/ PostMiss(id, u))
             /\ MapHas(cache, u) /\ now > cache[u].expiresAt)
            => /\ ~MapHas(cache', u)
               /\ cret'.gone = {u}
               /\ svc' = [state |-> "pending", id |-> id, url |-> u]
               /\ fetchCalls' = fetchCalls + 1
               /\ stageStatus'[1] = "running"
               /\ response' = response
     /\ (Returns /\ response'.body.success)
          => /\ MapHas(cache', svc.url)
             /\ cache'[svc.url] = [value |-> response'.body.data,
                                   expiresAt |-> now + ttlMs]
             /\ response'.body.data = CrawlResultData(result.value)]_vars

\* the second crawl of a url missed because the entry of the first had
\* expired, and its pipeline has completed
C33_Witness ==
  /\ ReturnReady
  /\ fetchCalls = 2
  /\ cret.op = "get"
  /\ cret.gone = {svc.url}
  /\ result.state = "resolved"
  /\ IsCompleted(result.value)

\* C38: every admitted POST /crawl records its timestamp in the step that
\* admits it, whether the request is then answered 422 or 500 for its
\* body, served from the cache, or starts a crawl; and no return of a
\* crawl, failed or not, changes the limiter, so the slot stays consumed.
C38_AdmittedConsumesSlot ==
  [][/\ \A id \in Clients :
          (\/ \E body \in Bodies : PostInvalid(id, body)
           \/ \E u \in Urls : PostHit(id, u) \/ PostMiss(id, u))
            => /\ Len(Recent(Timestamps(requests, id), now, windowMs)) < maxRequests
               /\ requests' = MapSet(requests, id,
                    Append(Recent(Timestamps(requests, id), now, windowMs), now))
     /\ Returns
          => /\ requests' = requests
             /\ MapHas(requests, svc.id)
             /\ Len(requests[svc.id]) >= 1]_vars

\* a crawl that was admitted has failed, and its caller, who has made no
\* other request inside the window, is over the limit
C38_Witness ==
  /\ svc.state = "idle"
  /\ response.status = 500
  /\ response.url \in Urls
  /\ ~response.body.success
  /\ MapHas(requests, response.id)
  /\ Len(Recent(requests[response.id], now, windowMs)) = maxRequests
  /\ lret.allowed

----------------------------------------------------------------------------
(* Claims about overlapping calls for one url, checked under
   SpecConcurrent *)

\* C35: a crawlUrl(u) that misses the cache while another call for u is in
\* progress starts a run of its own, from a context of its own and from the
\* first task (the fetch), and leaves the other call as it is; each run goes
\* through the tasks one by one and settles after the last; and a call that
\* returns stores the data of its own run under u, which is then in the
\* cache once, so that after two overlapping calls the cache holds the
\* value of the call that returned last.
C35_NoCoalescing ==
  [][/\ \A r \in Slots, u \in Urls :
          ((runs[r].pc = "idle" /\ InProgress(r)' /\ runs'[r].url = u)
             /\ \E q \in Slots \ {r} : InProgress(q) /\ runs[q].url = u)
            => /\ runs'[r] = [pc |-> "running", url |-> u, stage |-> 1,
                              ctx |-> <<r, 0>>]
               /\ heap'[<<r, 0>>] = [stage |-> "initial", url |-> u]
               /\ \A q \in Slots \ {r} :
                    runs'[q] = runs[q] /\ runs'[q].ctx # runs'[r].ctx
     /\ \A r \in Slots :
          (runs[r].pc = "running" /\ InProgress(r)' /\ runs'[r] # runs[r])
            => IF runs[r].stage < NumTasks
                 THEN runs'[r].pc = "running"
                        /\ runs'[r].stage = runs[r].stage + 1
                 ELSE runs'[r].pc = "settled"
     /\ \A r \in Slots :
          (runs[r].pc = "settled" /\ runs'[r].pc = "idle")
            => /\ MapHas(cache', runs[r].url)
               /\ cache'[runs[r].url] =
                    [value |-> CrawlResultData(heap[runs[r].ctx]),
                     expiresAt |-> now + ttlMs]
               /\ Cardinality({i \in 1..Len(order') :
                                 order'[i] = runs[r].url}) = 1]_vars

\* of two calls for one url that both missed, one has returned and stored
\* its data, and the other has settled on data that differ and is about to
\* return
C35_Witness ==
  /\ cret.op = "set"
  /\ \E r \in Slots :
       /\ runs[r].pc = "settled"
       /\ cret.key = runs[r].url
       /\ MapHas(cache, runs[r].url)
       /\ cache[runs[r].url].value # CrawlResultData(heap[runs[r].ctx])

----------------------------------------------------------------------------
(* Claims about termination, checked under SpecCrawlLive *)

\* C32: the promise of workflow.run that crawlUrl awaits, run under the
\* deadline of the service, eventually settles whatever the tasks do, a
\* task that never settles included, provided the timer fires once it is
\* due; it resolves, or it rejects and the catch block of crawlUrl returns
\* a failure, so crawlUrl resolves with a result either way.
C32_EveryCrawlTerminates ==
  (result.state = "pending")
    ~> (\/ result.state = "resolved"
        \/ /\ result.state = "rejected"
           /\ ~CrawlResultOf(result, timer.ms).success)

\* the run of a crawl has been rejected by the deadline while its first
\* task was still in flight, and crawlUrl answers the failure of the timeout
C32_Witness ==
  /\ timer.state = "fired"
  /\ stageStatus[1] = "running"
  /\ result = Rejected(TimeoutError)
  /\ now >= timer.due
  /\ CrawlResultOf(result, timer.ms).error.message
       = ErrorProps(TimeoutError, timeoutMs).message

====
